---- MODULE Spec2Model ----
(***************************************************************************)
(* Model of src/src/invoice_service.py: InvoiceService.compute_total and   *)
(* the private stages it calls.                                            *)
(*                                                                         *)
(* Numbers.  Python floats are modelled as exact fixed-point numbers: an   *)
(* amount of money is an integer count of 1/Unit of a currency unit, and a *)
(* rate r (0.07, 0.10, ...) is held as the integer 100 * r.  Every product *)
(* amount * rate taken by the code is exact at this resolution for the     *)
(* whole-unit prices drawn below (ExactArithmetic checks it).              *)
(*                                                                         *)
(* Strings.  Identifiers, skus, categories and messages are TLA+ strings   *)
(* (joined with \o as the code joins them).  A coupon code is a sequence   *)
(* of one-character strings, so that str.strip() is modelled by what it    *)
(* does.                                                                   *)
(***************************************************************************)
EXTENDS Integers, Sequences, FiniteSets, TLC

VARIABLES
    coupon_rate,  \* self._coupon_rate, the instance's coupon table
    inv,          \* the Invoice object passed to the running / last call
    pc,           \* position of the call inside compute_total
    ran,          \* the stages of compute_total the current call has executed
    problems,     \* the list returned by _validate
    warnings,     \* the local list `warnings` of compute_total
    subtotal, fragile_fee, shipping, discount, tax, total, \* locals of compute_total
    result,       \* what the call gave its caller: a (total, warnings) pair or a ValueError
    ref,          \* observer: one remembered earlier call (invoice and outcome)
    ship          \* inputs and outputs of the two _shipping_fee evaluations compared by SpecShip

vars == <<coupon_rate, inv, pc, ran, problems, warnings, subtotal, fragile_fee,
          shipping, discount, tax, total, result, ref, ship>>

locals == <<subtotal, fragile_fee, shipping, discount, tax, total>>

-----------------------------------------------------------------------------
(* Bounds of the model *)

MaxItems == 2
ShipMargin == 1

-----------------------------------------------------------------------------
(* Number representation *)

Unit == 100 * 100

Max(a, b) == IF a >= b THEN a ELSE b

\* amount * rate, the rate held in hundredths
MulRate(amount, rate100) == (amount \div 100) * rate100

-----------------------------------------------------------------------------
(* Class constants and configuration *)

ALLOWED_CATEGORIES == {"book", "food", "electronics", "other"}

FRAGILE_FEE_PER_UNIT == 5

SHIPPING_RULES ==
    [TH      |-> << <<500, 60>> >>,
     JP      |-> << <<4000, 600>> >>,
     US      |-> << <<100, 15>>, <<300, 8>> >>,
     DEFAULT |-> << <<200, 25>> >>]

TAX_RATE == [TH |-> 7, JP |-> 10, US |-> 8, DEFAULT |-> 5]

MEMBERSHIP_DISCOUNT_RATE == [gold |-> 3, platinum |-> 5]

NON_MEMBER_BULK_THRESHOLD == 3000
NON_MEMBER_BULK_DISCOUNT == 20

UPGRADE_HINT_THRESHOLD == 10000

WELCOME10 == <<"W", "E", "L", "C", "O", "M", "E", "1", "0">>
VIP20 == <<"V", "I", "P", "2", "0">>
STUDENT5 == <<"S", "T", "U", "D", "E", "N", "T", "5">>

\* the table built by __init__
InitCouponRate == (WELCOME10 :> 10) @@ (VIP20 :> 20) @@ (STUDENT5 :> 5)

-----------------------------------------------------------------------------
(* Python built-ins used by the code *)

Whitespace == {" ", "\t", "\n"}

RECURSIVE LStrip(_)
LStrip(s) ==
    IF s # <<>> /\ Head(s) \in Whitespace THEN LStrip(Tail(s)) ELSE s

RECURSIVE RStrip(_)
RStrip(s) ==
    IF s # <<>> /\ s[Len(s)] \in Whitespace THEN RStrip(SubSeq(s, 1, Len(s) - 1)) ELSE s

\* str.strip()
Strip(s) == RStrip(LStrip(s))

\* sep.join(parts)
RECURSIVE Join(_, _)
Join(sep, parts) ==
    IF parts = <<>> THEN ""
    ELSE IF Len(parts) = 1 THEN parts[1]
    ELSE parts[1] \o sep \o Join(sep, Tail(parts))

\* dict.get(key, default)
Get(table, key, default) == IF key \in DOMAIN table THEN table[key] ELSE default

-----------------------------------------------------------------------------
(* Validation *)

\* the body of the per-item loop of _validate
ItemProblems(it) ==
    (IF it.sku = "" THEN <<"Item sku is missing">> ELSE <<>>)
    \o (IF it.qty <= 0 THEN <<"Invalid qty for " \o it.sku>> ELSE <<>>)
    \o (IF it.unit_price < 0 THEN <<"Invalid price for " \o it.sku>> ELSE <<>>)
    \o (IF it.category \notin ALLOWED_CATEGORIES
        THEN <<"Unknown category for " \o it.sku>> ELSE <<>>)

RECURSIVE ValidateItems(_)
ValidateItems(items) ==
    IF items = <<>> THEN <<>>
    ELSE ItemProblems(Head(items)) \o ValidateItems(Tail(items))

\* faulty variant of Validate: the empty-items check is missing
ValidateNoEmptyCheck(i) ==
    IF i.isNone THEN <<"Invoice is missing">>
    ELSE (IF i.invoice_id = "" THEN <<"Missing invoice_id">> ELSE <<>>)
         \o (IF i.customer_id = "" THEN <<"Missing customer_id">> ELSE <<>>)
         \o ValidateItems(i.items)

\* faulty variant of Validate: customer_id is checked before invoice_id
ValidateSwappedChecks(i) ==
    IF i.isNone THEN <<"Invoice is missing">>
    ELSE LET head == (IF i.customer_id = "" THEN <<"Missing customer_id">> ELSE <<>>)
                     \o (IF i.invoice_id = "" THEN <<"Missing invoice_id">> ELSE <<>>)
         IN  IF i.items = <<>>
             THEN head \o <<"Invoice must contain items">>
             ELSE head \o ValidateItems(i.items)

\* _validate(inv)
Validate(i) ==
    IF i.isNone THEN <<"Invoice is missing">>
    ELSE LET head == (IF i.invoice_id = "" THEN <<"Missing invoice_id">> ELSE <<>>)
                     \o (IF i.customer_id = "" THEN <<"Missing customer_id">> ELSE <<>>)
         IN  IF i.items = <<>>
             THEN head \o <<"Invoice must contain items">>
             ELSE head \o ValidateItems(i.items)

\* faulty variant of Raises: the problems are computed and dropped
RaisesNever(probs) == FALSE

\* `if problems:` of _validate_or_raise
Raises(probs) == probs # <<>>

-----------------------------------------------------------------------------
(* Calculations *)

RECURSIVE Subtotal(_)
\* _subtotal(items)
Subtotal(items) ==
    IF items = <<>> THEN 0
    ELSE Head(items).unit_price * Head(items).qty * Unit + Subtotal(Tail(items))

RECURSIVE FragileFee(_)
\* _fragile_fee(items)
FragileFee(items) ==
    IF items = <<>> THEN 0
    ELSE (IF Head(items).fragile THEN FRAGILE_FEE_PER_UNIT * Head(items).qty * Unit ELSE 0)
         + FragileFee(Tail(items))

\* the loop of _shipping_fee over the rules from position k on
RECURSIVE ScanRules(_, _, _)
ScanRules(rules, k, sub) ==
    IF k > Len(rules) THEN 0
    ELSE IF sub < rules[k][1] * Unit THEN rules[k][2] * Unit
    ELSE ScanRules(rules, k + 1, sub)

\* faulty variant of ShippingFee: the last matching rule wins, not the first
ShippingFeeLastMatch(country, sub) ==
    LET rules == Get(SHIPPING_RULES, country, SHIPPING_RULES["DEFAULT"])
        hits == {k \in 1..Len(rules) : sub < rules[k][1] * Unit}
    IN  IF hits = {} THEN 0
        ELSE rules[CHOOSE k \in hits : \A j \in hits : j <= k][2] * Unit

\* _shipping_fee(country, subtotal)
ShippingFee(country, sub) ==
    ScanRules(Get(SHIPPING_RULES, country, SHIPPING_RULES["DEFAULT"]), 1, sub)

\* `(inv.coupon or "").strip()`
CouponCode(i) == Strip(IF i.coupon.isNone THEN <<>> ELSE i.coupon.s)

\* faulty variant of Discount: the bulk comparison is reversed
DiscountBulkBelowThreshold(i, sub, table) ==
    LET first  == IF i.membership \in DOMAIN MEMBERSHIP_DISCOUNT_RATE
                  THEN MulRate(sub, MEMBERSHIP_DISCOUNT_RATE[i.membership])
                  ELSE IF sub < NON_MEMBER_BULK_THRESHOLD * Unit
                       THEN NON_MEMBER_BULK_DISCOUNT * Unit
                       ELSE 0
        code   == CouponCode(i)
        coupon == IF code # <<>> /\ code \in DOMAIN table THEN MulRate(sub, table[code]) ELSE 0
    IN  first + coupon

\* faulty variant of Discount: the bulk amount is added for members too
DiscountStacksBulk(i, sub, table) ==
    LET member == IF i.membership \in DOMAIN MEMBERSHIP_DISCOUNT_RATE
                  THEN MulRate(sub, MEMBERSHIP_DISCOUNT_RATE[i.membership])
                  ELSE 0
        bulk   == IF sub > NON_MEMBER_BULK_THRESHOLD * Unit
                  THEN NON_MEMBER_BULK_DISCOUNT * Unit ELSE 0
        code   == CouponCode(i)
        coupon == IF code # <<>> /\ code \in DOMAIN table THEN MulRate(sub, table[code]) ELSE 0
    IN  member + bulk + coupon

\* the value returned by _discount
Discount(i, sub, table) ==
    LET first  == IF i.membership \in DOMAIN MEMBERSHIP_DISCOUNT_RATE
                  THEN MulRate(sub, MEMBERSHIP_DISCOUNT_RATE[i.membership])
                  ELSE IF sub > NON_MEMBER_BULK_THRESHOLD * Unit
                       THEN NON_MEMBER_BULK_DISCOUNT * Unit
                       ELSE 0
        code   == CouponCode(i)
        coupon == IF code # <<>> /\ code \in DOMAIN table THEN MulRate(sub, table[code]) ELSE 0
    IN  first + coupon

\* faulty variant of DiscountWarnings: the coupon is looked up without strip()
DiscountWarningsUntrimmed(i, table, w) ==
    LET code == IF i.coupon.isNone THEN <<>> ELSE i.coupon.s
    IN  IF code # <<>> /\ code \notin DOMAIN table THEN Append(w, "Unknown coupon") ELSE w

\* the warnings list as _discount leaves it
DiscountWarnings(i, table, w) ==
    LET code == CouponCode(i)
    IN  IF code # <<>> /\ code \notin DOMAIN table THEN Append(w, "Unknown coupon") ELSE w

\* faulty variant of TaxableAmount: tax on the subtotal before discount
TaxableAmountGross(sub, disc) == sub

\* the argument `subtotal - discount` compute_total passes to _tax
TaxableAmount(sub, disc) == sub - disc

\* _tax(country, taxable_amount)
Tax(country, taxable_amount) ==
    MulRate(Max(taxable_amount, 0), Get(TAX_RATE, country, TAX_RATE["DEFAULT"]))

\* faulty variant of Total: the subtotal term and the clamp are missing
TotalNoSubtotal(sub, ship_fee, frag, tx, disc) == ship_fee + frag + tx - disc

\* lines 75-76 of compute_total
Total(sub, ship_fee, frag, tx, disc) == Max(sub + ship_fee + frag + tx - disc, 0)

\* the warnings list as _append_warnings leaves it
AppendWarnings(i, sub, w) ==
    IF sub > UPGRADE_HINT_THRESHOLD * Unit /\ i.membership \notin DOMAIN MEMBERSHIP_DISCOUNT_RATE
    THEN Append(w, "Consider membership upgrade")
    ELSE w

-----------------------------------------------------------------------------
(* Inputs *)

NoCoupon == [isNone |-> TRUE, s |-> <<>>]
CouponOf(chars) == [isNone |-> FALSE, s |-> chars]

LineItem(sku, category, unit_price, qty, fragile) ==
    [sku |-> sku, category |-> category, unit_price |-> unit_price, qty |-> qty,
     fragile |-> fragile]

Invoice(invoice_id, customer_id, country, membership, coupon, items) ==
    [isNone |-> FALSE, invoice_id |-> invoice_id, customer_id |-> customer_id,
     country |-> country, membership |-> membership, coupon |-> coupon, items |-> items]

\* the argument None
NoInvoice ==
    [isNone |-> TRUE, invoice_id |-> "", customer_id |-> "", country |-> "",
     membership |-> "", coupon |-> NoCoupon, items |-> <<>>]

SeqsUpTo(S, n) == UNION {[1..k -> S] : k \in 0..n}

\* line items of the pricing runs: nine valid ones, one with qty = 0, one of unknown category
PricingItems ==
    {LineItem("A", "book", 50, 1, FALSE),
     LineItem("A", "book", 50, 2, FALSE),
     LineItem("B", "other", 250, 1, FALSE),
     LineItem("B", "other", 250, 2, FALSE),
     LineItem("C", "electronics", 3000, 1, TRUE),
     LineItem("C", "electronics", 3000, 2, TRUE),
     LineItem("D", "electronics", 5000, 1, FALSE),
     LineItem("D", "electronics", 5000, 2, FALSE),
     LineItem("E", "food", 0, 1, TRUE),
     LineItem("F", "food", 50, 0, FALSE),
     LineItem("G", "toy", 250, 1, TRUE)}

Countries == {"TH", "JP", "US", "FR"}
Memberships == {"gold", "platinum", "silver"}
Coupons ==
    {NoCoupon, CouponOf(<<>>), CouponOf(<<" ", "\t">>), CouponOf(WELCOME10),
     CouponOf(<<" ">> \o VIP20 \o <<"\n">>), CouponOf(STUDENT5),
     CouponOf(<<"B", "O", "G", "U", "S">>)}

PricingInvoices ==
    {Invoice("INV-1", "CUST-1", c, m, k, its) :
        c \in Countries, m \in Memberships, k \in Coupons,
        its \in SeqsUpTo(PricingItems, MaxItems)}

\* line items of the validation runs: every combination of the four per-item rules
ValidationItems ==
    {LineItem(sku, cat, price, qty, FALSE) :
        sku \in {"", "A"}, cat \in {"book", "toy"}, price \in {-1, 250}, qty \in {0, 1}}

ValidationInvoices ==
    {Invoice(id, cust, "US", "silver", NoCoupon, its) :
        id \in {"", "INV-1"}, cust \in {"", "CUST-1"},
        its \in SeqsUpTo(ValidationItems, MaxItems)}
    \cup {NoInvoice}

\* invoices of the repeated-call runs: failing ones, and ones with none, one and two warnings
IdemInvoices ==
    {Invoice("INV-1", "CUST-1", "US", m, k, its) :
        m \in {"gold", "silver"},
        k \in {NoCoupon, CouponOf(VIP20), CouponOf(<<"B", "O", "G", "U", "S">>)},
        its \in {<<>>,
                 <<LineItem("B", "other", 250, 1, FALSE)>>,
                 <<LineItem("F", "food", 50, 0, FALSE)>>,
                 <<LineItem("D", "electronics", 5000, 2, FALSE),
                   LineItem("A", "book", 50, 1, FALSE)>>}}

\* subtotals around every threshold of the shipping table
ShipSubtotals ==
    {0} \cup
    UNION {{SHIPPING_RULES[c][k][1] * Unit + d :
               k \in 1..Len(SHIPPING_RULES[c]), d \in (-ShipMargin)..ShipMargin} :
           c \in DOMAIN SHIPPING_RULES}

ShipCountries == DOMAIN SHIPPING_RULES \cup {"FR", ""}

-----------------------------------------------------------------------------
(* State machine *)

NoResult == [kind |-> "none", total |-> 0, warnings |-> <<>>, message |-> ""]
Returned(t, w) == [kind |-> "ok", total |-> t, warnings |-> w, message |-> ""]
Raised(msg) == [kind |-> "error", total |-> 0, warnings |-> <<>>, message |-> msg]

NoRef == [set |-> FALSE, inv |-> NoInvoice, out |-> NoResult]
NoShip == [done |-> FALSE, country |-> "", s1 |-> 0, s2 |-> 0, f1 |-> 0, f2 |-> 0]

\* the state after InvoiceService()
Init ==
    /\ coupon_rate = InitCouponRate
    /\ inv = NoInvoice
    /\ pc = "idle"
    /\ ran = {}
    /\ problems = <<>>
    /\ warnings = <<>>
    /\ subtotal = 0 /\ fragile_fee = 0 /\ shipping = 0
    /\ discount = 0 /\ tax = 0 /\ total = 0
    /\ result = NoResult
    /\ ref = NoRef
    /\ ship = NoShip

\* faulty variant of Call: the warnings list outlives the call
CallKeepsWarnings(Invs) ==
    /\ pc \in {"idle", "returned", "raised"}
    /\ \E i \in Invs : inv' = i
    /\ pc' = "validate"
    /\ ran' = {}
    /\ problems' = <<>>
    /\ subtotal' = 0 /\ fragile_fee' = 0 /\ shipping' = 0
    /\ discount' = 0 /\ tax' = 0 /\ total' = 0
    /\ result' = NoResult
    /\ UNCHANGED <<coupon_rate, warnings, ref, ship>>

\* entry of compute_total(inv): fresh locals, `warnings = []`
Call(Invs) ==
    /\ pc \in {"idle", "returned", "raised"}
    /\ \E i \in Invs : inv' = i
    /\ pc' = "validate"
    /\ ran' = {}
    /\ problems' = <<>>
    /\ warnings' = <<>>
    /\ subtotal' = 0 /\ fragile_fee' = 0 /\ shipping' = 0
    /\ discount' = 0 /\ tax' = 0 /\ total' = 0
    /\ result' = NoResult
    /\ UNCHANGED <<coupon_rate, ref, ship>>

\* self._validate_or_raise(inv)
ValidateOrRaise ==
    /\ pc = "validate"
    /\ problems' = Validate(inv)
    /\ ran' = ran \cup {"validate"}
    /\ IF Raises(problems')
       THEN /\ pc' = "raised"
            /\ result' = Raised(Join("; ", problems'))
       ELSE /\ pc' = "subtotal"
            /\ UNCHANGED result
    /\ UNCHANGED <<coupon_rate, inv, warnings, locals, ref, ship>>

\* subtotal = self._subtotal(inv.items)
SubtotalStep ==
    /\ pc = "subtotal"
    /\ subtotal' = Subtotal(inv.items)
    /\ ran' = ran \cup {"subtotal"}
    /\ pc' = "fragile_fee"
    /\ UNCHANGED <<coupon_rate, inv, problems, warnings, fragile_fee, shipping,
                   discount, tax, total, result, ref, ship>>

\* fragile_fee = self._fragile_fee(inv.items)
FragileFeeStep ==
    /\ pc = "fragile_fee"
    /\ fragile_fee' = FragileFee(inv.items)
    /\ ran' = ran \cup {"fragile_fee"}
    /\ pc' = "shipping"
    /\ UNCHANGED <<coupon_rate, inv, problems, warnings, subtotal, shipping,
                   discount, tax, total, result, ref, ship>>

\* shipping = self._shipping_fee(inv.country, subtotal)
ShippingStep ==
    /\ pc = "shipping"
    /\ shipping' = ShippingFee(inv.country, subtotal)
    /\ ran' = ran \cup {"shipping"}
    /\ pc' = "discount"
    /\ UNCHANGED <<coupon_rate, inv, problems, warnings, subtotal, fragile_fee,
                   discount, tax, total, result, ref, ship>>

\* discount = self._discount(inv, subtotal, warnings)
DiscountStep ==
    /\ pc = "discount"
    /\ discount' = Discount(inv, subtotal, coupon_rate)
    /\ warnings' = DiscountWarnings(inv, coupon_rate, warnings)
    /\ ran' = ran \cup {"discount"}
    /\ pc' = "tax"
    /\ UNCHANGED <<coupon_rate, inv, problems, subtotal, fragile_fee, shipping,
                   tax, total, result, ref, ship>>

\* tax = self._tax(inv.country, subtotal - discount)
TaxStep ==
    /\ pc = "tax"
    /\ tax' = Tax(inv.country, TaxableAmount(subtotal, discount))
    /\ ran' = ran \cup {"tax"}
    /\ pc' = "total"
    /\ UNCHANGED <<coupon_rate, inv, problems, warnings, subtotal, fragile_fee,
                   shipping, discount, total, result, ref, ship>>

\* total = subtotal + shipping + fragile_fee + tax - discount; total = max(total, 0.0)
TotalStep ==
    /\ pc = "total"
    /\ total' = Total(subtotal, shipping, fragile_fee, tax, discount)
    /\ ran' = ran \cup {"total"}
    /\ pc' = "warnings"
    /\ UNCHANGED <<coupon_rate, inv, problems, warnings, subtotal, fragile_fee,
                   shipping, discount, tax, result, ref, ship>>

\* self._append_warnings(inv, subtotal, warnings); return total, warnings
WarnAndReturn ==
    /\ pc = "warnings"
    /\ warnings' = AppendWarnings(inv, subtotal, warnings)
    /\ ran' = ran \cup {"warnings"}
    /\ result' = Returned(total, warnings')
    /\ pc' = "returned"
    /\ UNCHANGED <<coupon_rate, inv, problems, locals, ref, ship>>

Pipeline ==
    \/ ValidateOrRaise
    \/ SubtotalStep
    \/ FragileFeeStep
    \/ ShippingStep
    \/ DiscountStep
    \/ TaxStep
    \/ TotalStep
    \/ WarnAndReturn

\* the first compute_total of a fresh instance, on a pricing invoice
CallPricing == pc = "idle" /\ Call(PricingInvoices)

Next == CallPricing \/ Pipeline

Spec == Init /\ [][Next]_vars

\* the first compute_total of a fresh instance, on a validation invoice
CallValidation == pc = "idle" /\ Call(ValidationInvoices)

NextValidate == CallValidation \/ Pipeline

SpecValidate == Init /\ [][NextValidate]_vars

\* compute_total called again and again on one instance
CallAgain == Call(IdemInvoices)

\* the observer remembers the finished call: its invoice and what it gave
Remember ==
    /\ pc \in {"returned", "raised"}
    /\ ~ref.set
    /\ ref' = [set |-> TRUE, inv |-> inv, out |-> result]
    /\ UNCHANGED <<coupon_rate, inv, pc, ran, problems, warnings, locals, result, ship>>

NextIdem == CallAgain \/ Pipeline \/ Remember

SpecIdem == Init /\ [][NextIdem]_vars

\* _shipping_fee as a pure function: one country, two subtotals
InitShip ==
    /\ coupon_rate = InitCouponRate
    /\ inv = NoInvoice
    /\ pc = "idle"
    /\ ran = {}
    /\ problems = <<>>
    /\ warnings = <<>>
    /\ subtotal = 0 /\ fragile_fee = 0 /\ shipping = 0
    /\ discount = 0 /\ tax = 0 /\ total = 0
    /\ result = NoResult
    /\ ref = NoRef
    /\ \E c \in ShipCountries, a \in ShipSubtotals, b \in ShipSubtotals :
          ship = [done |-> FALSE, country |-> c, s1 |-> a, s2 |-> b, f1 |-> 0, f2 |-> 0]

ApplyShippingFee ==
    /\ ~ship.done
    /\ ship' = [ship EXCEPT !.done = TRUE,
                            !.f1 = ShippingFee(ship.country, ship.s1),
                            !.f2 = ShippingFee(ship.country, ship.s2)]
    /\ UNCHANGED <<coupon_rate, inv, pc, ran, problems, warnings, locals, result, ref>>

NextShip == ApplyShippingFee

SpecShip == InitShip /\ [][NextShip]_vars

-----------------------------------------------------------------------------
(* Sanity of the number representation *)

\* every amount * rate product taken so far was exact at the model's resolution
ExactArithmetic ==
    /\ subtotal % 100 = 0
    /\ (pc \in {"total", "warnings", "returned"}) => TaxableAmount(subtotal, discount) % 100 = 0

-----------------------------------------------------------------------------
(* Vocabulary of the properties *)

Stages == {"validate", "subtotal", "fragile_fee", "shipping", "discount", "tax",
           "total", "warnings"}

\* the call has run _validate
Validated == pc \notin {"idle", "validate"}

\* the call has run _discount
Discounted == pc \in {"tax", "total", "warnings", "returned"}

\* an invoice that satisfies every rule of the validator
ValidInvoice(i) ==
    /\ ~i.isNone
    /\ i.invoice_id # "" /\ i.customer_id # ""
    /\ Len(i.items) >= 1
    /\ \A k \in 1..Len(i.items) :
          /\ i.items[k].sku # ""
          /\ i.items[k].qty > 0
          /\ i.items[k].unit_price >= 0
          /\ i.items[k].category \in ALLOWED_CATEGORIES

\* the coupon of the invoice ("" when there is none) from its first to its last
\* character that is not whitespace
Trimmed(i) ==
    LET s   == IF i.coupon.isNone THEN <<>> ELSE i.coupon.s
        ink == {j \in 1..Len(s) : s[j] \notin {" ", "\t", "\n"}}
    IN  IF ink = {} THEN <<>>
        ELSE SubSeq(s, CHOOSE j \in ink : \A k \in ink : j <= k,
                       CHOOSE j \in ink : \A k \in ink : j >= k)

IsMember(i) == i.membership \in {"gold", "platinum"}

\* the rate of a country in hundredths, by the tax table
TaxRateOf(country) ==
    CASE country = "TH" -> 7
      [] country = "JP" -> 10
      [] country = "US" -> 8
      [] OTHER -> 5

RECURSIVE FragileQty(_, _)
FragileQty(items, k) ==
    IF k = 0 THEN 0
    ELSE (IF items[k].fragile THEN items[k].qty ELSE 0) + FragileQty(items, k - 1)

-----------------------------------------------------------------------------
(* C1 *)

\* C1: for every invoice that passes validation, whatever the country, membership
\* and coupon, compute_total returns, and the total it returns is >= 0.
C1_TotalNonNegative ==
    (ValidInvoice(inv) /\ pc = "returned") => (result.kind = "ok" /\ result.total >= 0)

\* a valid invoice with the largest discount (platinum + VIP20) has returned
C1_Witness ==
    /\ pc = "returned" /\ ValidInvoice(inv)
    /\ inv.membership = "platinum" /\ Trimmed(inv) = VIP20
    /\ subtotal > 0 /\ result.total > 0

-----------------------------------------------------------------------------
(* C2 *)

\* C2, state part: a call that raised did so in the validation stage, with at least
\* one problem, before any later stage ran and without a (total, warnings) pair; a
\* call that returned found no problem, ran every stage and raised nothing; no
\* result exists before the call ends; after validation the outcome is decided by
\* the problems alone; and an unfinished call can always take its next step.
C2_Outcomes ==
    /\ pc = "raised" =>
          /\ problems # <<>>
          /\ ran = {"validate"}
          /\ result.kind = "error"
          /\ warnings = <<>> /\ locals = <<0, 0, 0, 0, 0, 0>>
    /\ pc = "returned" =>
          /\ problems = <<>>
          /\ ran = Stages
          /\ result.kind = "ok"
    /\ result.kind # "none" <=> pc \in {"returned", "raised"}
    /\ Validated => (problems # <<>> <=> pc = "raised")
    /\ pc \notin {"idle", "returned", "raised"} => ENABLED Pipeline

\* C2: compute_total has exactly two exclusive outcomes: problems found by _validate
\* raise an error before any other stage runs and no pair is produced; no problem
\* means the pipeline runs on (each step runs one more stage) to a (total, warnings)
\* pair, whatever the country, membership or coupon.
C2_TwoOutcomes ==
    /\ []C2_Outcomes
    /\ [][pc \notin {"idle", "returned", "raised"} =>
             (ran # ran' /\ ran \subseteq ran' /\ (pc' = "raised" => pc = "validate"))]_vars

\* a call with unknown country, unrecognized membership and unknown coupon returned
C2_Witness ==
    /\ pc = "returned" /\ result.kind = "ok"
    /\ inv.country \notin {"TH", "JP", "US", "DEFAULT"}
    /\ ~IsMember(inv)
    /\ Trimmed(inv) # <<>> /\ Trimmed(inv) \notin {WELCOME10, VIP20, STUDENT5}

-----------------------------------------------------------------------------
(* C3 *)

\* the rules of the validator as <<position, rule>> pairs: position 0 is the invoice
\* header (rule 1 invoice_id, rule 2 customer_id), position k >= 1 is item k (rule 1
\* sku, 2 qty, 3 unit_price, 4 category)
Violations(i) ==
    {v \in {<<0, 1>>} : i.invoice_id = ""}
    \cup {v \in {<<0, 2>>} : i.customer_id = ""}
    \cup {<<k, 1>> : k \in {j \in 1..Len(i.items) : i.items[j].sku = ""}}
    \cup {<<k, 2>> : k \in {j \in 1..Len(i.items) : i.items[j].qty <= 0}}
    \cup {<<k, 3>> : k \in {j \in 1..Len(i.items) : i.items[j].unit_price < 0}}
    \cup {<<k, 4>> : k \in {j \in 1..Len(i.items) :
                              i.items[j].category \notin {"book", "food", "electronics", "other"}}}

Before(v, w) == v[1] < w[1] \/ (v[1] = w[1] /\ v[2] < w[2])

ProblemText(i, v) ==
    CASE v = <<0, 1>> -> "Missing invoice_id"
      [] v = <<0, 2>> -> "Missing customer_id"
      [] v[1] > 0 /\ v[2] = 1 -> "Item sku is missing"
      [] v[1] > 0 /\ v[2] = 2 -> "Invalid qty for " \o i.items[v[1]].sku
      [] v[1] > 0 /\ v[2] = 3 -> "Invalid price for " \o i.items[v[1]].sku
      [] v[1] > 0 /\ v[2] = 4 -> "Unknown category for " \o i.items[v[1]].sku

\* the violated rules in detection order, one problem each
ExpectedProblems(i) ==
    LET V == Violations(i)
    IN  [n \in 1..Cardinality(V) |->
            ProblemText(i, CHOOSE v \in V : Cardinality({w \in V : Before(w, v)}) = n - 1)]

\* C3: for an invoice with a non-empty item list the problems are one per violated
\* rule, in detection order (invoice_id, customer_id, then per item sku, qty, price,
\* category), and when there is one the error message is all of them joined with
\* "; "; a missing invoice_id and one item "A" with qty = 0 give exactly
\* "Missing invoice_id; Invalid qty for A".
C3_ErrorMessage ==
    (Validated /\ ~inv.isNone /\ inv.items # <<>>) =>
        /\ problems = ExpectedProblems(inv)
        /\ Violations(inv) # {} =>
              (pc = "raised" /\ result.message = Join("; ", ExpectedProblems(inv)))
        /\ (inv.invoice_id = "" /\ inv.customer_id # "" /\ Len(inv.items) = 1
            /\ inv.items[1] = LineItem("A", "book", 250, 0, FALSE)) =>
              result.message = "Missing invoice_id; Invalid qty for A"
        /\ (inv.invoice_id # "" /\ inv.customer_id = "" /\ Len(inv.items) = 1
            /\ inv.items[1] = LineItem("", "toy", -1, 0, FALSE)) =>
              result.message = "Missing customer_id; Item sku is missing; Invalid qty for ; "
                               \o "Invalid price for ; Unknown category for "

\* the spec's example has raised: missing invoice_id, one item with qty = 0
C3_Witness ==
    /\ pc = "raised"
    /\ inv.invoice_id = "" /\ inv.customer_id # ""
    /\ inv.items = <<LineItem("A", "book", 250, 0, FALSE)>>
    /\ result.message = "Missing invoice_id; Invalid qty for A"

-----------------------------------------------------------------------------
(* C4 *)

\* C4 as stated: for every invoice whose items sequence is empty, _validate yields
\* exactly one problem, "Invoice must contain items".
C4_ExactlyOneProblem ==
    (Validated /\ ~inv.isNone /\ inv.items = <<>>) =>
        problems = <<"Invoice must contain items">>

\* C4 amended: for every invoice whose items sequence is empty, _validate yields
\* "Invoice must contain items" exactly once, as its last problem, preceded only by
\* the problems of an empty invoice_id and an empty customer_id (so it is the only
\* problem exactly when both are non-empty), with no per-item problem; the call raises.
C4_EmptyItems ==
    (Validated /\ ~inv.isNone /\ inv.items = <<>>) =>
        /\ pc = "raised"
        /\ problems =
              (IF inv.invoice_id = "" THEN <<"Missing invoice_id">> ELSE <<>>)
              \o (IF inv.customer_id = "" THEN <<"Missing customer_id">> ELSE <<>>)
              \o <<"Invoice must contain items">>
        /\ (inv.invoice_id # "" /\ inv.customer_id # "") => Len(problems) = 1

\* an invoice with no items and no invoice_id has raised
C4_Witness ==
    /\ pc = "raised" /\ ~inv.isNone
    /\ inv.items = <<>> /\ inv.invoice_id = "" /\ inv.customer_id # ""
    /\ Len(problems) = 2

-----------------------------------------------------------------------------
(* C5 *)

\* part A of the claim: the membership rate, else the flat bulk amount above 3000
MembershipOrBulk(i, sub) ==
    CASE i.membership = "gold" -> 3 * (sub \div 100)
      [] i.membership = "platinum" -> 5 * (sub \div 100)
      [] OTHER -> IF sub > 3000 * Unit THEN 20 * Unit ELSE 0

\* part B of the claim: the rate of the trimmed coupon, 0 for any other coupon
CouponPart(i, sub) ==
    LET code == Trimmed(i)
    IN  CASE code = WELCOME10 -> 10 * (sub \div 100)
          [] code = VIP20 -> 20 * (sub \div 100)
          [] code = STUDENT5 -> 5 * (sub \div 100)
          [] OTHER -> 0

\* C5: the discount is A + B: A the membership rate for a recognized membership and
\* otherwise the bulk amount (20 above 3000, else 0), B the coupon rate of the
\* trimmed coupon or 0; it is never negative; subtotal 1000 with "gold" and
\* "WELCOME10" gives 130.
C5_Discount ==
    Discounted =>
        /\ discount = MembershipOrBulk(inv, subtotal) + CouponPart(inv, subtotal)
        /\ discount >= 0
        /\ (subtotal = 1000 * Unit /\ inv.membership = "gold" /\ Trimmed(inv) = WELCOME10)
              => discount = 130 * Unit

\* the spec's example: subtotal 1000, gold, WELCOME10
C5_Witness ==
    /\ pc = "returned"
    /\ subtotal = 1000 * Unit /\ inv.membership = "gold" /\ Trimmed(inv) = WELCOME10
    /\ discount = 130 * Unit

-----------------------------------------------------------------------------
(* C6 *)

\* the fee the table gives: that of the first entry whose threshold exceeds sub
IsFirstMatchFee(country, sub, fee) ==
    LET rules == IF country \in {"TH", "JP", "US", "DEFAULT"}
                 THEN SHIPPING_RULES[country] ELSE SHIPPING_RULES["DEFAULT"]
    IN  \/ /\ \A k \in 1..Len(rules) : ~(sub < rules[k][1] * Unit)
           /\ fee = 0
        \/ \E k \in 1..Len(rules) :
              /\ sub < rules[k][1] * Unit
              /\ \A j \in 1..(k - 1) : ~(sub < rules[j][1] * Unit)
              /\ fee = rules[k][2] * Unit

\* C6: for a fixed country (listed, or unlisted and served by the DEFAULT rules) and
\* subtotals s1 <= s2, _shipping_fee(country, s1) >= _shipping_fee(country, s2); the
\* fee is that of the first entry with subtotal < threshold, 0 when none matches.
C6_ShippingMonotone ==
    ship.done =>
        /\ IsFirstMatchFee(ship.country, ship.s1, ship.f1)
        /\ IsFirstMatchFee(ship.country, ship.s2, ship.f2)
        /\ ship.s1 <= ship.s2 => ship.f1 >= ship.f2

\* US, one subtotal in the first tier and a larger one in the second
C6_Witness ==
    /\ ship.done /\ ship.country = "US"
    /\ ship.s1 < 100 * Unit /\ ship.s2 >= 100 * Unit /\ ship.s2 < 300 * Unit
    /\ ship.f1 = 15 * Unit /\ ship.f2 = 8 * Unit

-----------------------------------------------------------------------------
(* C7 *)

\* C7: for every valid invoice the returned total is
\* max(0, subtotal + shipping + fragileFee + tax - discount), with
\* tax = max(subtotal - discount, 0) x the country's rate (DEFAULT for an unlisted
\* country) and fragileFee = 5 x qty over the fragile items; for "US", one
\* non-fragile item of price 250 and qty 1, unrecognized membership, no coupon, the
\* result is 278 with no warnings.
C7_Total ==
    (pc = "returned" /\ ValidInvoice(inv)) =>
        /\ tax = TaxRateOf(inv.country) * (Max(subtotal - discount, 0) \div 100)
        /\ fragile_fee = 5 * Unit * FragileQty(inv.items, Len(inv.items))
        /\ result.total = Max(0, subtotal + shipping + fragile_fee + tax - discount)
        /\ (/\ inv.country = "US" /\ ~IsMember(inv) /\ inv.coupon.isNone
            /\ inv.items = <<LineItem("B", "other", 250, 1, FALSE)>>)
              => (result.total = 278 * Unit /\ result.warnings = <<>>)

\* the spec's end-to-end example has returned
C7_Witness ==
    /\ pc = "returned"
    /\ inv.country = "US" /\ ~IsMember(inv) /\ inv.coupon.isNone
    /\ inv.items = <<LineItem("B", "other", 250, 1, FALSE)>>
    /\ result.total = 278 * Unit

-----------------------------------------------------------------------------
(* C8 *)

UnknownCoupon(i) ==
    LET code == Trimmed(i)
    IN  code # <<>> /\ code \notin {WELCOME10, VIP20, STUDENT5}

UpgradeHint(i, sub) == sub > 10000 * Unit /\ ~IsMember(i)

\* C8: for every valid invoice the returned warnings are "Unknown coupon" exactly
\* when the trimmed coupon is non-empty and not in the coupon table, then
\* "Consider membership upgrade" exactly when subtotal > 10000 and the membership is
\* not in the rate table, and nothing else; a missing, empty or whitespace-only
\* coupon gives no warning and no coupon discount.
C8_Warnings ==
    (pc = "returned" /\ ValidInvoice(inv)) =>
        /\ result.warnings =
              (IF UnknownCoupon(inv) THEN <<"Unknown coupon">> ELSE <<>>)
              \o (IF UpgradeHint(inv, subtotal)
                  THEN <<"Consider membership upgrade">> ELSE <<>>)
        /\ Trimmed(inv) = <<>> =>
              /\ "Unknown coupon" \notin {result.warnings[k] : k \in 1..Len(result.warnings)}
              /\ discount = MembershipOrBulk(inv, subtotal)

\* both warnings were returned
C8_Witness ==
    /\ pc = "returned"
    /\ result.warnings = <<"Unknown coupon", "Consider membership upgrade">>

-----------------------------------------------------------------------------
(* C9 *)

\* a finished call on the remembered invoice gives what the remembered call gave
C9_SameOutcome ==
    (ref.set /\ pc \in {"returned", "raised"} /\ inv = ref.inv) => result = ref.out

\* C9: after any sequence of compute_total calls on one instance, a call on a given
\* invoice gives the same (total, warnings) or the same error as an earlier call on
\* an identical invoice; each call starts with an empty warnings list; and no step
\* of a call changes the invoice or the coupon table.
C9_Idempotent ==
    /\ []C9_SameOutcome
    /\ [](pc = "validate" => warnings = <<>>)
    /\ [][pc' # "validate" => inv' = inv]_vars
    /\ [][coupon_rate' = coupon_rate]_vars

\* a later call on the remembered invoice returned the two warnings again, once each
C9_Witness ==
    /\ ref.set /\ pc = "returned" /\ inv = ref.inv /\ ran = Stages
    /\ result.warnings = <<"Unknown coupon", "Consider membership upgrade">>
    /\ result = ref.out

-----------------------------------------------------------------------------
(* C10 *)

\* C10: with the shipped tables, for every valid invoice the discount is <= the
\* subtotal, so neither clamp changes a value: subtotal - discount is >= 0 when it
\* is passed to _tax, and subtotal + shipping + fragileFee + tax - discount is >= 0
\* before max(total, 0.0).
C10_ClampsIdle ==
    (Discounted /\ ValidInvoice(inv)) =>
        /\ discount <= subtotal
        /\ subtotal - discount >= 0
        /\ pc \in {"total", "warnings", "returned"} =>
              tax = TaxRateOf(inv.country) * ((subtotal - discount) \div 100)
        /\ pc \in {"warnings", "returned"} =>
              /\ subtotal + shipping + fragile_fee + tax - discount >= 0
              /\ total = subtotal + shipping + fragile_fee + tax - discount

\* a valid invoice with a zero subtotal (discount = subtotal = 0) has returned
C10_Witness ==
    /\ pc = "returned" /\ ValidInvoice(inv)
    /\ subtotal = 0 /\ discount = 0 /\ total = shipping + fragile_fee

====
